---- MODULE Spec2Model ----
(***************************************************************************)
(* Sudoku WFC (src/sudoku_wfc.c): the 81-tile candidate-mask board, its    *)
(* one-slot undo snapshot, collapse with recursive constraint propagation  *)
(* and the greedy solver, as a state machine.                              *)
(***************************************************************************)
EXTENDS Integers, Sequences, FiniteSets, TLC

\* ------------------------------------------------------------ constants
TILE_STATES == 9
BOARD_WIDTH == 9
BOARD_SIZE == BOARD_WIDTH * BOARD_WIDTH
\* 0x1FF: the first 9 bits set.
FULL_TILE == 511
\* The side of a box (x / 3 * 3).
BOX_WIDTH == 3

\* ------------------------------------------------------------ bounds
\* Key presses and mouse clicks handled in one run.
MaxOps == 3
\* Mouse clicks land on the first tile of the boxes 0..MaxClickBox, counted
\* along the top row first (tiles (0, 0), (3, 0), ...) ...
MaxClickBox == 1
\* ... and ask for a value in 0..MaxClickValue.
MaxClickValue == 0
\* GetRandomValue returns a value in 0..MaxRand ...
MaxRand == 1
\* ... in the first RandIters iterations of a solver pass, and 0 afterwards.
RandIters == 1

VARIABLES
    tiles,          \* int tiles[BOARD_SIZE]
    last_tiles,     \* int last_tiles[BOARD_SIZE]
    pc,             \* where the program is: "init", "idle" (main loop), "for", "scan"
    sorted_tiles,   \* solve_board's local sorted_tiles[BOARD_SIZE]
    si,             \* solve_board's loop index i of the collapse loop
    value,          \* solve_board's local value
    nops,           \* input events handled so far
    call,           \* the step just taken and, for a collapse_tile call, its arguments
    prev_tiles      \* the board before the step just taken

vars == <<tiles, last_tiles, pc, sorted_tiles, si, value, nops, call, prev_tiles>>

Indices == 0 .. (BOARD_SIZE - 1)
Bits == 0 .. (TILE_STATES - 1)

\* ------------------------------------------------------------ bit arithmetic
\* 1 << bit
Shl1(bit) == 2 ^ bit

\* m & (1 << bit), as a truth value
BitSet(m, bit) == (m \div Shl1(bit)) % 2 = 1

\* m & ~(1 << bit)
ClearBit(m, bit) == IF BitSet(m, bit) THEN m - Shl1(bit) ELSE m

\* (int) log2(n) for n >= 1; log2(0) is -infinity, whose conversion to int is
\* undefined: -1 stands for "no defined result".
RECURSIVE Log2(_)
Log2(n) == IF n <= 0 THEN -1 ELSE IF n = 1 THEN 0 ELSE 1 + Log2(n \div 2)

\* ------------------------------------------------------------ queries
\* &tiles[y * BOARD_WIDTH + x]
get_tile(x, y) == y * BOARD_WIDTH + x

is_set(t, x, y, bit) == BitSet(t[get_tile(x, y)], bit)

\* The number of bits 0 .. TILE_STATES - 1 set in mask m (the loop of
\* get_tile_entropy), tabulated for the masks of at most TILE_STATES bits.
MaskEntropy(m) == Cardinality({b \in Bits : BitSet(m, b)})

EntropyTable == [m \in 0 .. FULL_TILE |-> MaskEntropy(m)]

get_tile_entropy(t, i) ==
    LET x == i % BOARD_WIDTH
        y == i \div BOARD_WIDTH
    IN  EntropyTable[t[get_tile(x, y)]]

\* The sum of get_tile_entropy over the tiles lo .. hi - 1 (summed by halves).
RECURSIVE SumEntropy(_, _, _)
SumEntropy(t, lo, hi) ==
    IF hi = lo + 1 THEN get_tile_entropy(t, lo)
    ELSE LET mid == (lo + hi) \div 2
         IN  SumEntropy(t, lo, mid) + SumEntropy(t, mid, hi)

\* (mutant) the sum stops one tile short of the board.
get_board_entropy_short(t) == SumEntropy(t, 0, BOARD_SIZE - 1)

get_board_entropy(t) == SumEntropy(t, 0, BOARD_SIZE)

is_collapsed(t, x, y) == get_tile_entropy(t, x + y * BOARD_WIDTH) = 1

\* a & b for a >= 0 (0 & b is 0 for every b, also for b = -1).
RECURSIVE BitAnd(_, _)
BitAnd(a, b) ==
    IF a = 0 \/ b = 0 THEN 0
    ELSE (a % 2) * (b % 2) + 2 * BitAnd(a \div 2, b \div 2)

\* is_collapsed of the variant src/main.c: (value & (value - 1)) == 0.
is_collapsed_main(t, x, y) ==
    LET val == t[get_tile(x, y)]
    IN  BitAnd(val, val - 1) = 0

get_collapsed_value(t, x, y) ==
    LET v == t[get_tile(x, y)]
        mask == Shl1(TILE_STATES) - 1
    IN  Log2(v % (mask + 1))

\* ------------------------------------------------------------ propagation
\* The tiles constrain_peers(x, y, _) visits, in the order of its loops. Each visit
\* is "if (!is_collapsed(tile)) constrain_tile(tile, value)".
\* for (int i = 0; i < BOARD_WIDTH; ++i): tile (i, y) of the row, then tile (x, i)
\* of the column, unless i == x || i == y.
RECURSIVE RowColVisits(_, _, _)
RowColVisits(x, y, i) ==
    IF i >= BOARD_WIDTH THEN <<>>
    ELSE (IF i = x \/ i = y THEN <<>> ELSE << <<i, y>>, <<x, i>> >>)
         \o RowColVisits(x, y, i + 1)

\* The two nested loops over the box, k = 3 * (i - box_y) + (j - box_x): tile (j, i)
\* unless it is (x, y).
RECURSIVE BoxVisits(_, _, _)
BoxVisits(x, y, k) ==
    IF k >= BOX_WIDTH * BOX_WIDTH THEN <<>>
    ELSE LET box_x == (x \div BOX_WIDTH) * BOX_WIDTH
             box_y == (y \div BOX_WIDTH) * BOX_WIDTH
             i == box_y + (k \div BOX_WIDTH)
             j == box_x + (k % BOX_WIDTH)
         IN  (IF i = y /\ j = x THEN <<>> ELSE << <<j, i>> >>) \o BoxVisits(x, y, k + 1)

PeerVisits(x, y) == RowColVisits(x, y, 0) \o BoxVisits(x, y, 0)

\* PeerVisits of every tile, by linear index.
PeerTable == [p \in Indices |-> PeerVisits(p % BOARD_WIDTH, p \div BOARD_WIDTH)]

\* The recursion of constrain_peers and constrain_tile runs on an explicit call
\* stack: a cascade is the board t, the stack of active constrain_peers calls (each
\* with its arguments x, y, v and the number k of visits it has made), the number
\* n of constrain_peers calls made so far, their arguments in the order of the
\* calls (calls) and the masks get_collapsed_value was invoked on (gcv).
Frame(x, y, v) == [x |-> x, y |-> y, v |-> v, k |-> 0]

\* The cascade of a collapse_tile call on board t, before its first call.
StartCascade(t) == [t |-> t, stack |-> <<>>, n |-> 0, calls |-> <<>>, gcv |-> <<>>]

\* constrain_peers(x, y, v) is called: a new frame on the stack.
CallPeers(s, x, y, v) ==
    [s EXCEPT !.stack = Append(@, Frame(x, y, v)),
              !.n = @ + 1,
              !.calls = Append(@, <<x, y, v>>)]

\* (mutant) the constraint is propagated whether the tile is collapsed or not.
constrain_tile_unguarded(s, x, y, v) ==
    LET t1 == [s.t EXCEPT ![get_tile(x, y)] = ClearBit(@, v)]
        s1 == [s EXCEPT !.t = t1]
    IN  CallPeers([s1 EXCEPT !.gcv = Append(@, t1[get_tile(x, y)])],
                  x, y, get_collapsed_value(t1, x, y))

\* constrain_tile(x, y, v) on cascade s: clear the bit and, if the tile has just
\* become collapsed, call constrain_peers with its collapsed value.
constrain_tile(s, x, y, v) ==
    LET t1 == [s.t EXCEPT ![get_tile(x, y)] = ClearBit(@, v)]
        s1 == [s EXCEPT !.t = t1]
    IN  IF is_collapsed(t1, x, y)
        THEN CallPeers([s1 EXCEPT !.gcv = Append(@, t1[get_tile(x, y)])],
                       x, y, get_collapsed_value(t1, x, y))
        ELSE s1

\* (mutant) a visit constrains the peer whether it is collapsed or not.
constrain_peers_noskip(s) ==
    LET d == Len(s.stack)
        f == s.stack[d]
        visits == PeerTable[get_tile(f.x, f.y)]
    IN  IF f.k >= Len(visits)
        THEN [s EXCEPT !.stack = SubSeq(s.stack, 1, d - 1)]
        ELSE constrain_tile([s EXCEPT !.stack[d].k = f.k + 1],
                            visits[f.k + 1][1], visits[f.k + 1][2], f.v)

\* One step of the innermost active constrain_peers call: its next visit, or its
\* return when it has visited every peer.
constrain_peers(s) ==
    LET d == Len(s.stack)
        f == s.stack[d]
        visits == PeerTable[get_tile(f.x, f.y)]
    IN  IF f.k >= Len(visits)
        THEN [s EXCEPT !.stack = SubSeq(s.stack, 1, d - 1)]
        ELSE LET px == visits[f.k + 1][1]
                 py == visits[f.k + 1][2]
                 s1 == [s EXCEPT !.stack[d].k = f.k + 1]
             IN  IF ~is_collapsed(s.t, px, py)
                 THEN constrain_tile(s1, px, py, f.v)
                 ELSE s1

\* No cascade takes more steps than this: at most one constrain_peers call per
\* tile, each with fewer than 3 * BOARD_WIDTH visits and one return.
CascadeFuel == BOARD_SIZE * 3 * BOARD_WIDTH

\* Run the cascade for at most fuel steps, or until the outermost call returns:
\* the first half of the steps, then from its result s1 the second half.
RECURSIVE RunCascade(_, _)
RunCascade(s, fuel) ==
    IF s.stack = <<>> \/ fuel <= 0 THEN s
    ELSE IF fuel = 1 THEN constrain_peers(s)
    ELSE CHOOSE r \in {RunCascade(s1, fuel - (fuel \div 2)) :
                           s1 \in {RunCascade(s, fuel \div 2)}} : TRUE

\* (mutant) the snapshot is stored after the target tile has been forced.
collapse_snapshot_late(t, x, y, v) == [t EXCEPT ![get_tile(x, y)] = Shl1(v)]

\* The snapshot collapse_tile(x, y, v) stores, called on board t.
collapse_snapshot(t, x, y, v) == t

\* (mutant) the target tile is or-ed with the bit instead of assigned.
collapse_tile_or(t, x, y, v) ==
    RunCascade(
        CallPeers(StartCascade([t EXCEPT ![get_tile(x, y)] =
                                      IF BitSet(@, v) THEN @ ELSE @ + Shl1(v)]),
                  x, y, v),
        CascadeFuel)

\* The cascade when collapse_tile(x, y, v), called on board t, returns.
collapse_tile(t, x, y, v) ==
    RunCascade(
        CallPeers(StartCascade([t EXCEPT ![get_tile(x, y)] = Shl1(v)]), x, y, v),
        CascadeFuel)

\* ------------------------------------------------------------ state machine
ZeroBoard == [i \in Indices |-> 0]
FullBoard == [i \in Indices |-> FULL_TILE]
NoSort == [i \in Indices |-> 0]
\* The record of a step: its kind, for a collapse_tile call the arguments, the
\* number n of constrain_peers calls it made and who called ("user", "solver"), the
\* kind of the step before it, and whether collapse_tile has been called so far;
\* for a collapse_tile call also what its cascade did (Returned).
Step(op, x, y, v, n, by, prev, any) ==
    [op |-> op, x |-> x, y |-> y, v |-> v, n |-> n, by |-> by, prev |-> prev, any |-> any,
     calls |-> <<>>, gcv |-> <<>>, done |-> TRUE]
\* The step record st of a collapse_tile call whose cascade ended as r: the
\* constrain_peers calls made, the masks get_collapsed_value was invoked on, and
\* whether the outermost constrain_peers call has returned.
Returned(st, r) ==
    [st EXCEPT !.calls = r.calls, !.gcv = r.gcv, !.done = (r.stack = <<>>)]
NoCall(op) == Step(op, 0, 0, 0, 0, "none", call.op, call.any)

Init ==
    /\ tiles = ZeroBoard
    /\ last_tiles = ZeroBoard
    /\ pc = "init"
    /\ sorted_tiles = NoSort
    /\ si = 0
    /\ value = 0
    /\ nops = 0
    /\ call = Step("init", 0, 0, 0, 0, "none", "init", FALSE)
    /\ prev_tiles = ZeroBoard

\* main: reset_tiles() before the main loop
Start ==
    /\ pc = "init"
    /\ tiles' = FullBoard
    /\ pc' = "idle"
    /\ call' = NoCall("start")
    /\ prev_tiles' = tiles
    /\ UNCHANGED <<last_tiles, sorted_tiles, si, value, nops>>

\* (mutant) the reset loop stops one tile short of the board.
reset_tiles_short ==
    /\ pc = "idle" /\ nops < MaxOps
    /\ tiles' = [i \in Indices |-> IF i < BOARD_SIZE - 1 THEN FULL_TILE ELSE tiles[i]]
    /\ nops' = nops + 1
    /\ call' = NoCall("reset")
    /\ prev_tiles' = tiles
    /\ UNCHANGED <<last_tiles, pc, sorted_tiles, si, value>>

\* (mutant) reset also stores the board it resets as the snapshot.
reset_tiles_snapshot ==
    /\ pc = "idle" /\ nops < MaxOps
    /\ tiles' = FullBoard
    /\ last_tiles' = tiles
    /\ nops' = nops + 1
    /\ call' = NoCall("reset")
    /\ prev_tiles' = tiles
    /\ UNCHANGED <<pc, sorted_tiles, si, value>>

\* KEY_R
reset_tiles ==
    /\ pc = "idle" /\ nops < MaxOps
    /\ tiles' = FullBoard
    /\ nops' = nops + 1
    /\ call' = NoCall("reset")
    /\ prev_tiles' = tiles
    /\ UNCHANGED <<last_tiles, pc, sorted_tiles, si, value>>

\* (mutant) undo exchanges the board and the snapshot.
undo_tiles_swap ==
    /\ pc = "idle" /\ nops < MaxOps
    /\ tiles' = last_tiles
    /\ last_tiles' = tiles
    /\ nops' = nops + 1
    /\ call' = NoCall("undo")
    /\ prev_tiles' = tiles
    /\ UNCHANGED <<pc, sorted_tiles, si, value>>

\* KEY_Z
undo_tiles ==
    /\ pc = "idle" /\ nops < MaxOps
    /\ tiles' = last_tiles
    /\ nops' = nops + 1
    /\ call' = NoCall("undo")
    /\ prev_tiles' = tiles
    /\ UNCHANGED <<last_tiles, pc, sorted_tiles, si, value>>

\* collapse_tile(x, y, v) called from outside the solver
Collapse(x, y, v) ==
    /\ pc = "idle" /\ nops < MaxOps
    /\ \E r \in {collapse_tile(tiles, x, y, v)} :
           /\ tiles' = r.t
           /\ call' = Returned(Step("collapse", x, y, v, r.n, "user", call.op, TRUE), r)
    /\ last_tiles' = collapse_snapshot(tiles, x, y, v)
    /\ nops' = nops + 1
    /\ prev_tiles' = tiles
    /\ UNCHANGED <<pc, sorted_tiles, si, value>>

\* A click on a subtile (draw_tile): collapse_tile(x, y, v) for a tile that is not
\* collapsed and a value whose bit is set in it.
LegalCollapse(x, y, v) ==
    /\ ~is_collapsed(tiles, x, y)
    /\ is_set(tiles, x, y, v)
    /\ Collapse(x, y, v)

\* ------------------------------------------------------------ solver
\* (mutant) the comparison is reversed: swap unless a >= b.
SortStepReversed(st, t, i, j) ==
    LET a == get_tile_entropy(t, st[i])
        b == get_tile_entropy(t, st[j])
    IN  IF a >= b THEN st ELSE [st EXCEPT ![i] = st[j], ![j] = st[i]]

\* The exchange sort of solve_board. One comparison of the inner loop:
\* a = entropy(sorted_tiles[i]), b = entropy(sorted_tiles[j]), swap unless a <= b.
SortStep(st, t, i, j) ==
    LET a == get_tile_entropy(t, st[i])
        b == get_tile_entropy(t, st[j])
    IN  IF a <= b THEN st ELSE [st EXCEPT ![i] = st[j], ![j] = st[i]]

\* The inner loop for j in lo .. hi - 1, in increasing order of j (the range is
\* split in two halves, done one after the other).
RECURSIVE SortInner(_, _, _, _, _)
SortInner(st, t, i, lo, hi) ==
    IF lo >= hi THEN st
    ELSE IF hi = lo + 1 THEN SortStep(st, t, i, lo)
    ELSE LET mid == (lo + hi) \div 2
         IN  CHOOSE r \in {SortInner(st1, t, i, mid, hi) :
                               st1 \in {SortInner(st, t, i, lo, mid)}} : TRUE

\* The outer loop for i in lo .. hi - 1, in increasing order of i.
RECURSIVE SortOuter(_, _, _, _)
SortOuter(st, t, lo, hi) ==
    IF lo >= hi THEN st
    ELSE IF hi = lo + 1 THEN SortInner(st, t, lo, lo + 1, BOARD_SIZE)
    ELSE LET mid == (lo + hi) \div 2
         IN  CHOOSE r \in {SortOuter(st1, t, mid, hi) :
                               st1 \in {SortOuter(st, t, lo, mid)}} : TRUE

\* sorted_tiles once the sort is done
SortTiles(t) == SortOuter([i \in Indices |-> i], t, 0, BOARD_SIZE)

\* (mutant) the collapse loop does not skip the collapsed tiles.
NextUncollapsedNoSkip(t, st, i) == IF i < BOARD_SIZE THEN i ELSE BOARD_SIZE

\* The collapse loop skips (continue) the collapsed tiles: the first index from i
\* on whose tile is not collapsed, BOARD_SIZE if there is none.
NextUncollapsed(t, st, i) ==
    LET open == {k \in i .. (BOARD_SIZE - 1) :
                    ~is_collapsed(t, st[k] % BOARD_WIDTH, st[k] \div BOARD_WIDTH)}
    IN  IF open = {} THEN BOARD_SIZE ELSE CHOOSE k \in open : \A m \in open : k <= m

\* What GetRandomValue(0, TILE_STATES - 1) may return in iteration i.
RandomValues(i) == IF i < RandIters THEN 0 .. MaxRand ELSE {0}

\* solve_board's entry on board t: return when every tile is collapsed, else sort
\* and start the collapse loop.
SolveEntry(t) ==
    IF get_board_entropy(t) = BOARD_SIZE
    THEN /\ pc' = "idle"
         /\ sorted_tiles' = NoSort
    ELSE /\ pc' = "for"
         /\ sorted_tiles' = SortTiles(t)

\* KEY_S
solve_key ==
    /\ pc = "idle" /\ nops < MaxOps
    /\ tiles' = IF get_board_entropy(tiles) = BOARD_SIZE THEN FullBoard ELSE tiles
    /\ SolveEntry(tiles')
    /\ si' = 0
    /\ nops' = nops + 1
    /\ call' = NoCall("solve")
    /\ prev_tiles' = tiles
    /\ UNCHANGED <<last_tiles, value>>

\* The head of the collapse loop: past the collapsed tiles, then either the
\* recursive solve_board() call after the loop or the random draw for a tile.
SolveFor ==
    /\ pc = "for"
    /\ \E k \in {NextUncollapsed(tiles, sorted_tiles, si)} :
           IF k >= BOARD_SIZE
           THEN /\ SolveEntry(tiles)
                /\ si' = 0
                /\ value' = 0
                /\ call' = NoCall("recurse")
           ELSE /\ \E r \in RandomValues(k) : value' = r
                /\ si' = k
                /\ pc' = "scan"
                /\ call' = NoCall("draw")
                /\ UNCHANGED sorted_tiles
    /\ prev_tiles' = tiles
    /\ UNCHANGED <<tiles, last_tiles, nops>>

\* (mutant) the scan wraps around at the box width instead of TILE_STATES.
ScanNextBox(v) == (v + 1) % BOX_WIDTH

\* value = (value + 1) % TILE_STATES
ScanNext(v) == (v + 1) % TILE_STATES

\* while (!is_set(x, y, value)) value = (value + 1) % TILE_STATES;
\* then collapse_tile(x, y, value) and the next iteration.
SolveScan ==
    /\ pc = "scan"
    /\ LET tile == sorted_tiles[si]
           x == tile % BOARD_WIDTH
           y == tile \div BOARD_WIDTH
       IN  IF ~is_set(tiles, x, y, value)
           THEN /\ value' = ScanNext(value)
                /\ call' = NoCall("scan")
                /\ UNCHANGED <<tiles, last_tiles, pc, si>>
           ELSE \E r \in {collapse_tile(tiles, x, y, value)} :
                    /\ tiles' = r.t
                    /\ last_tiles' = collapse_snapshot(tiles, x, y, value)
                    /\ call' = Returned(Step("collapse", x, y, value, r.n, "solver",
                                                call.op, TRUE), r)
                    /\ si' = si + 1
                    /\ pc' = "for"
                    /\ UNCHANGED value
    /\ prev_tiles' = tiles
    /\ UNCHANGED <<sorted_tiles, nops>>

Next ==
    \/ Start
    \/ reset_tiles
    \/ undo_tiles
    \/ \E i \in 0 .. MaxClickBox, v \in 0 .. MaxClickValue :
          Collapse((i * BOX_WIDTH) % BOARD_WIDTH,
                   (i * BOX_WIDTH) \div BOARD_WIDTH, v)
    \/ solve_key
    \/ SolveFor
    \/ SolveScan

Spec == Init /\ [][Next]_vars

\* The solver runs to completion once started: single-threaded, nothing preempts it.
FairSpec == Spec /\ WF_vars(SolveFor) /\ WF_vars(SolveScan)

\* The runs without KEY_Z: reset, collapse_tile calls and solve_board only.
NextForward ==
    \/ Start
    \/ reset_tiles
    \/ \E i \in 0 .. MaxClickBox, v \in 0 .. MaxClickValue :
          Collapse((i * BOX_WIDTH) % BOARD_WIDTH,
                   (i * BOX_WIDTH) \div BOARD_WIDTH, v)
    \/ solve_key
    \/ SolveFor
    \/ SolveScan

ForwardSpec == Init /\ [][NextForward]_vars

\* The runs without KEY_Z in which every collapse_tile call from outside the
\* solver is a click on a subtile.
NextLegal ==
    \/ Start
    \/ reset_tiles
    \/ \E i \in 0 .. MaxClickBox, v \in 0 .. MaxClickValue :
          LegalCollapse((i * BOX_WIDTH) % BOARD_WIDTH,
                        (i * BOX_WIDTH) \div BOARD_WIDTH, v)
    \/ solve_key
    \/ SolveFor
    \/ SolveScan

LegalSpec == Init /\ [][NextLegal]_vars

\* ------------------------------------------------------------ properties
\* Tiles p and q (linear indices) are peers: different tiles of one row, one
\* column or one box.
IsPeer(p, q) ==
    /\ p # q
    /\ \/ p \div BOARD_WIDTH = q \div BOARD_WIDTH
       \/ p % BOARD_WIDTH = q % BOARD_WIDTH
       \/ /\ (p \div BOARD_WIDTH) \div BOX_WIDTH = (q \div BOARD_WIDTH) \div BOX_WIDTH
          /\ (p % BOARD_WIDTH) \div BOX_WIDTH = (q % BOARD_WIDTH) \div BOX_WIDTH

\* The linear index of the tile the collapse_tile call just made was for.
Target == call.y * BOARD_WIDTH + call.x

\* Mask m has exactly one of its bits set.
OneBit(m) == \E b \in Bits : m = Shl1(b)

\* C1: when collapse_tile(x, y, v) has returned, cascade included, tile (x, y) holds
\* exactly the single bit v: is_collapsed(x, y) and get_collapsed_value(x, y) = v.
C1_TargetCollapsedToValue ==
    call.op = "collapse" =>
        /\ tiles[Target] = Shl1(call.v)
        /\ is_collapsed(tiles, call.x, call.y)
        /\ get_collapsed_value(tiles, call.x, call.y) = call.v

\* C1 witness: a collapse_tile call whose cascade collapsed further tiles, and one
\* whose target was not at x = y.
C1_Witness ==
    /\ call.op = "collapse"
    /\ call.n > 2
    /\ call.x # call.y

\* C2: when collapse_tile(x, y, v) has returned, bit v is clear in every peer of
\* (x, y) that was not collapsed before the call.
C2_PeersLoseValue ==
    call.op = "collapse" =>
        \A p \in Indices :
            (IsPeer(p, Target) /\ ~OneBit(prev_tiles[p])) => ~BitSet(tiles[p], call.v)

\* C3: a collapse_tile call stores the board as it was when the call was made, no
\* other step writes the snapshot, and an undo_tiles right after a collapse_tile
\* call gives back the board the call was made on.
C3_SnapshotIsBoardBeforeCollapse ==
    [][/\ call'.op = "collapse" => last_tiles' = tiles
       /\ call'.op # "collapse" => last_tiles' = last_tiles
       /\ (call.op = "collapse" /\ call'.op = "undo") => tiles' = prev_tiles
      ]_vars

\* C3 witness: reset, collapse_tile(0, 0, 0), undo_tiles: the all-candidates board
\* is back (board entropy 729).
C3_Witness ==
    /\ call.op = "undo"
    /\ call.prev = "collapse"
    /\ nops = 2
    /\ last_tiles = FullBoard
    /\ tiles = FullBoard
    /\ get_board_entropy(tiles) = BOARD_SIZE * TILE_STATES

\* C4: solve_board entered on the all-candidates board returns, and then every tile
\* is collapsed (board entropy 81).
C4_FreshSolveTerminates ==
    (call.op = "solve" /\ pc = "for" /\ tiles = FullBoard)
        ~> (pc = "idle" /\ get_board_entropy(tiles) = BOARD_SIZE)

\* C4 witness: the first input was KEY_S, on the board main had just reset, and
\* solve_board has returned with every tile collapsed.
C4_Witness ==
    /\ pc = "idle"
    /\ call.op = "recurse"
    /\ nops = 1
    /\ get_board_entropy(tiles) = BOARD_SIZE
    /\ \A i \in Indices : OneBit(tiles[i])

\* C5: every operation terminates in every reachable state: whenever solve_board is
\* running it returns (reset_tiles, undo_tiles and collapse_tile are single steps).
C5_EveryOperationTerminates == (pc \in {"for", "scan"}) ~> (pc = "idle")

\* C6: an undo_tiles made before any collapse_tile call leaves the board as it was.
C6_UndoBeforeCollapseIsNoOp ==
    (call.op = "undo" /\ ~call.any) => tiles = prev_tiles

\* C7: undo_tiles made twice in succession leaves the board the first one left, and
\* undo_tiles never changes the snapshot.
C7_UndoIdempotent ==
    [][call'.op = "undo" =>
          /\ last_tiles' = last_tiles
          /\ call.op = "undo" => tiles' = tiles
      ]_vars

\* C7 witness: two undo_tiles in succession, after a collapse_tile call on the
\* all-candidates board has stored a snapshot.
C7_Witness ==
    /\ call.op = "undo"
    /\ call.prev = "undo"
    /\ call.any
    /\ tiles = FullBoard

\* C8: collapse_tile(x, y, v) with bit v not set in the mask of (x, y) leaves all 81
\* tiles unchanged.
C8_InvalidCollapseRejected ==
    (call.op = "collapse" /\ ~BitSet(prev_tiles[Target], call.v)) => tiles = prev_tiles

\* A step of collapse_tile or solve_board: a collapse_tile call, or the entry, the
\* loop head, the scan or the recursive call of solve_board (KEY_S on a fully
\* collapsed board calls reset_tiles first: that step is not one).
PropagationStep ==
    \/ call.op \in {"collapse", "draw", "scan", "recurse"}
    \/ call.op = "solve" /\ get_board_entropy(prev_tiles) # BOARD_SIZE

\* C9: across a step of collapse_tile or solve_board no tile has a bit set that was
\* clear before the step.
C9_MonotoneConstraining ==
    PropagationStep =>
        \A i \in Indices : \A b \in Bits : BitSet(tiles[i], b) => BitSet(prev_tiles[i], b)

\* C10: when solve_board calls collapse_tile for a tile, no uncollapsed tile has
\* strictly fewer set bits than that tile has at that moment.
C10_SolverPicksLowestEntropy ==
    (call.op = "collapse" /\ call.by = "solver") =>
        \A i \in Indices :
            ~OneBit(prev_tiles[i]) =>
                get_tile_entropy(prev_tiles, i) >= get_tile_entropy(prev_tiles, Target)

\* C11: in every reachable state, on the board and on the snapshot an undo would
\* restore, the board entropy is 81 exactly when every one of the 81 tiles has
\* exactly one bit set.
C11_EntropyEightyOneIffCollapsed ==
    /\ (get_board_entropy(tiles) = BOARD_SIZE) <=> (\A i \in Indices : OneBit(tiles[i]))
    /\ (get_board_entropy(last_tiles) = BOARD_SIZE)
           <=> (\A i \in Indices : OneBit(last_tiles[i]))

\* C11 witness: a board of entropy 81 (every tile collapsed) whose snapshot still
\* has a tile with several candidates.
C11_Witness ==
    /\ pc = "idle"
    /\ call.any
    /\ get_board_entropy(tiles) = BOARD_SIZE
    /\ get_board_entropy(last_tiles) > BOARD_SIZE

\* C12: after reset_tiles, from whatever board it was called on, every tile is 0x1FF
\* and the board entropy is 729.
C12_ResetGivesFullBoard ==
    call.op \in {"reset", "start"} =>
        /\ \A i \in Indices : tiles[i] = FULL_TILE
        /\ get_board_entropy(tiles) = BOARD_SIZE * TILE_STATES

\* C12 witness: reset_tiles called on a board with a collapsed tile and with empty
\* tiles (undo before any collapse, then a collapse_tile call).
C12_Witness ==
    /\ call.op = "reset"
    /\ call.prev = "collapse"
    /\ \E i \in Indices : OneBit(prev_tiles[i])
    /\ \E i \in Indices : prev_tiles[i] = 0

\* C13: a tile other than the target that has exactly one bit set when
\* collapse_tile(x, y, v) is called holds the same mask when the call returns.
C13_CollapsedNeverReconstrained ==
    call.op = "collapse" =>
        \A i \in Indices :
            (i # Target /\ OneBit(prev_tiles[i])) => tiles[i] = prev_tiles[i]

\* C13 witness: collapse_tile(x, y, v) returned from a cascade that collapsed further
\* tiles, where a tile that constrain_peers(x, y, v) visits was already collapsed to
\* the same value v.
C13_Witness ==
    /\ call.op = "collapse"
    /\ call.n > 1
    /\ \E k \in 1 .. Len(PeerTable[Target]) :
           LET p == get_tile(PeerTable[Target][k][1], PeerTable[Target][k][2])
           IN  prev_tiles[p] = Shl1(call.v) /\ tiles[p] = Shl1(call.v)

\* C14: when solve_board calls collapse_tile(x, y, v), bit v is set in the mask of
\* (x, y) at that moment and the tile is not collapsed at that moment.
C14_SolverCollapsesToCandidate ==
    (call.op = "collapse" /\ call.by = "solver") =>
        /\ BitSet(prev_tiles[Target], call.v)
        /\ ~OneBit(prev_tiles[Target])
        /\ ~is_collapsed(prev_tiles, call.x, call.y)

\* C14 witness: solve_board called collapse_tile after its scan had to move on from
\* the value drawn, which was not a candidate of the tile.
C14_Witness ==
    /\ call.op = "collapse"
    /\ call.by = "solver"
    /\ call.prev = "scan"
    /\ prev_tiles[Target] # FULL_TILE

\* C15: in a collapse_tile call, made from outside or by solve_board, every mask
\* get_collapsed_value is invoked on has exactly one bit set, and the value passed
\* on to constrain_peers is the index of that bit. (The first constrain_peers call is
\* collapse_tile's own; each later one is made with a get_collapsed_value result.)
C15_CollapsedValueOnlyOnOneBit ==
    call.op = "collapse" =>
        /\ Len(call.calls) = Len(call.gcv) + 1
        /\ \A k \in 1 .. Len(call.gcv) :
               /\ OneBit(call.gcv[k])
               /\ call.calls[k + 1][3] \in Bits
               /\ call.gcv[k] = Shl1(call.calls[k + 1][3])

\* C15 witness: a collapse_tile call whose cascade invoked get_collapsed_value on
\* several tiles, for different values.
C15_Witness ==
    /\ call.op = "collapse"
    /\ Len(call.gcv) > 2
    /\ call.gcv[1] # call.gcv[2]

\* C16: within one collapse_tile(x, y, v) call the cascade returns, constrain_peers
\* is invoked at most 81 times and at most once per tile: first for the target, then
\* only for tiles that were not collapsed when collapse_tile was called and are
\* collapsed when it returns.
C16_CascadeOncePerCell ==
    call.op = "collapse" =>
        /\ call.done
        /\ call.n = Len(call.calls)
        /\ Len(call.calls) <= BOARD_SIZE
        /\ get_tile(call.calls[1][1], call.calls[1][2]) = Target
        /\ \A j, k \in 1 .. Len(call.calls) :
               j # k => get_tile(call.calls[j][1], call.calls[j][2])
                            # get_tile(call.calls[k][1], call.calls[k][2])
        /\ \A k \in 2 .. Len(call.calls) :
               LET p == get_tile(call.calls[k][1], call.calls[k][2])
               IN  ~OneBit(prev_tiles[p]) /\ OneBit(tiles[p])

\* C16 witness: a collapse_tile call of solve_board whose cascade went through
\* more than three constrain_peers invocations and returned.
C16_Witness ==
    /\ call.op = "collapse"
    /\ call.by = "solver"
    /\ call.done
    /\ Len(call.calls) > 3

\* solve_board has just sorted: the state after its entry, before its collapse loop.
JustSorted == pc = "for" /\ call.op \in {"solve", "recurse"}

\* solve_board has just drawn the random value for the first tile of a pass that
\* is not collapsed, sorted_tiles[si]: the tile it collapses first in the pass.
FirstPick == call.op = "draw" /\ call.prev \in {"solve", "recurse"}

\* The uncollapsed tiles of minimum entropy among the uncollapsed tiles.
MinEntropyTiles ==
    {i \in Indices :
        /\ get_tile_entropy(tiles, i) # 1
        /\ \A j \in Indices :
               get_tile_entropy(tiles, j) # 1
                   => get_tile_entropy(tiles, i) <= get_tile_entropy(tiles, j)}

\* C17 (as stated): the sort leaves the indices in the order of a stable sort by
\* entropy (by entropy, equal entropies by index), and the first tile a pass
\* collapses is the lowest-index uncollapsed tile of minimum entropy.
C17_StableSortTieBreaking ==
    /\ JustSorted =>
           \A i, j \in Indices :
               i < j =>
                   LET a == get_tile_entropy(tiles, sorted_tiles[i])
                       b == get_tile_entropy(tiles, sorted_tiles[j])
                   IN  a < b \/ (a = b /\ sorted_tiles[i] < sorted_tiles[j])
    /\ FirstPick =>
           /\ sorted_tiles[si] \in MinEntropyTiles
           /\ \A i \in MinEntropyTiles : sorted_tiles[si] <= i

\* C17 (amended): the sort leaves a permutation of the indices in non-decreasing
\* order of entropy, and the first tile a pass collapses is an uncollapsed tile of
\* minimum entropy among the uncollapsed tiles.
C17_FirstPickHasMinimumEntropy ==
    /\ JustSorted =>
           /\ \A i \in Indices : \E k \in Indices : sorted_tiles[k] = i
           /\ \A i, j \in Indices :
                  i < j => get_tile_entropy(tiles, sorted_tiles[i])
                               <= get_tile_entropy(tiles, sorted_tiles[j])
    /\ FirstPick => sorted_tiles[si] \in MinEntropyTiles

\* C17 witness: the first tile of a pass is picked, and an uncollapsed tile of the
\* same entropy has a lower index.
C17_Witness ==
    /\ FirstPick
    /\ sorted_tiles[si] \in MinEntropyTiles
    /\ \E i \in MinEntropyTiles : i < sorted_tiles[si]

\* C18: in both variants is_collapsed(x, y) is true exactly when the mask of the
\* tile has exactly one of its 9 bits set, in every reachable state, the all-zero
\* board before the first reset and after an undo before any collapse included.
C18_IsCollapsedIffOneBit ==
    \A i \in Indices :
        LET x == i % BOARD_WIDTH
            y == i \div BOARD_WIDTH
        IN  /\ is_collapsed(tiles, x, y) <=> OneBit(tiles[i])
            /\ is_collapsed_main(tiles, x, y) <=> OneBit(tiles[i])

\* C19: in the runs made of reset_tiles, collapse_tile(x, y, v) calls (v a candidate
\* or not) and solve_board only, a step of collapse_tile or solve_board made on a
\* board without empty tiles leaves a board without empty tiles, and no tile is
\* empty in any state from main's reset on.
C19_PropagationNeverEmpties ==
    /\ (PropagationStep /\ \A i \in Indices : prev_tiles[i] # 0)
           => \A i \in Indices : tiles[i] # 0
    /\ pc # "init" => \A i \in Indices : tiles[i] # 0

\* C19 witness: collapse_tile(x, y, v) returned with a peer of (x, y) that was
\* collapsed to v before the call: the conflict is a duplicate value, and no tile
\* is empty.
C19_Witness ==
    /\ call.op = "collapse"
    /\ \E p \in Indices :
           IsPeer(p, Target) /\ prev_tiles[p] = Shl1(call.v) /\ tiles[p] = tiles[Target]
    /\ \A i \in Indices : tiles[i] # 0

\* C20: in the runs made of reset_tiles, solve_board and collapse_tile(x, y, v)
\* calls for a candidate v of an uncollapsed tile (x, y), no two different tiles
\* of one row, one column or one box are collapsed to the same value; the board
\* solve_board leaves is then a valid completed Sudoku.
C20_SudokuConsistency ==
    \A p, q \in Indices :
        (IsPeer(p, q) /\ OneBit(tiles[p]) /\ OneBit(tiles[q])) => tiles[p] # tiles[q]

\* C21: reset_tiles leaves the snapshot as it is, so collapse_tile, reset_tiles,
\* undo_tiles ends on the board the collapse_tile call was made on: after a
\* collapse_tile call the snapshot is the board the call was made on, a reset
\* does not change it, and an undo copies it to the board. Only a collapse_tile call
\* changes the snapshot.
C21_ResetKeepsSnapshot ==
    [][/\ call.op = "collapse" => last_tiles = prev_tiles
       /\ call'.op \in {"reset", "start"} => last_tiles' = last_tiles
       /\ (call.op = "reset" /\ call'.op = "undo") => tiles' = last_tiles
       /\ last_tiles' # last_tiles => call'.op = "collapse"
      ]_vars

\* C21 witness: collapse_tile calls (of solve_board), reset_tiles, undo_tiles: the
\* board is the one the last collapse_tile call was made on, which is not the
\* all-candidates board the reset had left.
C21_Witness ==
    /\ call.op = "undo"
    /\ call.prev = "reset"
    /\ call.any
    /\ prev_tiles = FullBoard
    /\ tiles = last_tiles
    /\ tiles # FullBoard
    /\ \A i \in Indices : tiles[i] # 0

====
